---- MODULE Spec2Model ----
(***************************************************************************)
(* Skunk Ape Adventures catalog browser (src/app.js): the loader, the      *)
(* three filter controls, the debounced search handler, the filter         *)
(* pipeline with its matchers, and the renderer.                           *)
(*                                                                         *)
(* Text is a sequence of one-character strings, so that toLowerCase, trim, *)
(* join and includes are computed as the code computes them.  An optional  *)
(* listing field is <<>> when absent and <<v>> when present.               *)
(***************************************************************************)
EXTENDS Integers, Sequences, FiniteSets, TLC

VARIABLES
  allTours,        \* app.js:3   the working set
  filteredTours,   \* app.js:4   the displayed set
  activityFilter,  \* app.js:9   value of the activity selector
  priceFilter,     \* app.js:10  value of the price selector
  searchInput,     \* app.js:11  value of the search box
  toursContainer,  \* app.js:7   the listing area: [kind, cards]
  tourCount,       \* app.js:8   text of the result count element
  phase,           \* "parsed" (script ran), "fetching", "loaded", "failed"
  timers,          \* the browser's pending timeouts: set of [id, rem, val]
  timeout,         \* app.js:193 the handle kept by debounce's closure (0: undefined)
  elapsed,         \* history: ms since the last search-input event, capped at Wait
  firedSinceInput, \* history: debounced recomputes run since the last search-input event
  burstLen,        \* history: search-input events of the current burst, capped at 2
  applied,         \* history: <<[activity, price, search]>> read by the applyFilters
                   \*          that last wrote filteredTours, <<>> if it was not applyFilters
  fetches,         \* history: number of fetches started
  assigns          \* history: number of assignments to allTours

vars == <<allTours, filteredTours, activityFilter, priceFilter, searchInput,
          toursContainer, tourCount, phase, timers, timeout, elapsed,
          firedSinceInput, burstLen, applied, fetches, assigns>>

----------------------------------------------------------------------------
\* Bounds and program constants

\* debounce(applyFilters, 300)
Wait == 300

\* granularity of the model's clock, in ms
TickMs == 100

\* longest working set the fetch may deliver
MaxTours == 2

\* pending timeouts the browser's timer table may hold
MaxTimers == 2

----------------------------------------------------------------------------
\* Text helpers (JavaScript String / Array built-ins used by the code)

UpperToLower ==
  [A |-> "a", B |-> "b", C |-> "c", F |-> "f", G |-> "g", K |-> "k",
   R |-> "r", S |-> "s", W |-> "w"]

LowerChar(c) == IF c \in DOMAIN UpperToLower THEN UpperToLower[c] ELSE c

toLowerCase(s) == [i \in 1..Len(s) |-> LowerChar(s[i])]

RECURSIVE trimStart(_)
trimStart(s) ==
  IF s # <<>> /\ Head(s) = " " THEN trimStart(Tail(s)) ELSE s

RECURSIVE trimEnd(_)
trimEnd(s) ==
  IF s # <<>> /\ s[Len(s)] = " " THEN trimEnd(SubSeq(s, 1, Len(s) - 1)) ELSE s

trim(s) == trimEnd(trimStart(s))

includes(s, sub) ==
  \E i \in 0..(Len(s) - Len(sub)) : SubSeq(s, i + 1, i + Len(sub)) = sub

RECURSIVE join(_, _)
join(parts, sep) ==
  IF parts = <<>> THEN <<>>
  ELSE IF Len(parts) = 1 THEN parts[1]
  ELSE parts[1] \o sep \o join(Tail(parts), sep)

\* an absent field joins as the empty string
Text(opt) == IF opt = <<>> THEN <<>> ELSE opt[1]

\* JavaScript truthiness of an optional number: undefined and 0 are falsy
Truthy(opt) == opt # <<>> /\ opt[1] # 0

----------------------------------------------------------------------------
\* Words

wAirboat == <<"a","i","r","b","o","a","t">>
wKayak == <<"k","a","y","a","k">>
wPaddle == <<"p","a","d","d","l","e">>
wCanoe == <<"c","a","n","o","e">>
wWildlife == <<"w","i","l","d","l","i","f","e">>
wGator == <<"g","a","t","o","r">>
wAlligator == <<"a","l","l","i","g","a","t","o","r">>
wAnimal == <<"a","n","i","m","a","l">>
wBird == <<"b","i","r","d">>
wFishing == <<"f","i","s","h","i","n","g">>
wFish == <<"f","i","s","h">>
wBoatTourKey == <<"b","o","a","t","-","t","o","u","r">>
wBoatTour == <<"b","o","a","t"," ","t","o","u","r">>
wBoatRide == <<"b","o","a","t"," ","r","i","d","e">>
wEcoTourKey == <<"e","c","o","-","t","o","u","r">>
wEco == <<"e","c","o">>
wNature == <<"n","a","t","u","r","e">>
wMangrove == <<"m","a","n","g","r","o","v","e">>
wNight == <<"n","i","g","h","t">>
wSunset == <<"s","u","n","s","e","t">>
wEvening == <<"e","v","e","n","i","n","g">>
wPrivate == <<"p","r","i","v","a","t","e">>
wCharter == <<"c","h","a","r","t","e","r">>
wSwamp == <<"s","w","a","m","p">>
wTour == <<"T","o","u","r">>

----------------------------------------------------------------------------
\* Listings the static resource tours-data.json may hold

Tour1 ==
  [id |-> 1,
   name |-> << <<"G","a","t","o","r"," ","A","i","r","b","o","a","t">> >>,
   company |-> << <<"A","c","e">> >>,
   description |-> << <<"r","i","d","e">> >>,
   tags |-> <<wAirboat, wSunset>>,
   price |-> <<75>>,
   qualityScore |-> <<9>>]

Tour2 ==
  [id |-> 2,
   name |-> << <<"F","r","e","e"," ","B","i","r","d"," ","W","a","l","k">> >>,
   company |-> <<>>,
   description |-> << <<"k","a","y","a","k","s">> >>,
   tags |-> <<>>,
   price |-> <<0>>,
   qualityScore |-> <<>>]

Tour3 ==
  [id |-> 3,
   name |-> << <<"C","h","a","r","t","e","r">> >>,
   company |-> << <<"A","c","e">> >>,
   description |-> <<>>,
   tags |-> << <<"P","a","d","d","l","e">> >>,
   price |-> <<>>,
   qualityScore |-> <<9>>]

Tour4 ==
  [id |-> 4,
   name |-> <<>>,
   company |-> << <<"B","a","y">> >>,
   description |-> <<>>,
   tags |-> << <<"S","w","a","m","p">>, wKayak >>,
   price |-> <<50>>,
   qualityScore |-> <<0>>]

Catalog == {Tour1, Tour2, Tour3, Tour4}

RECURSIVE SeqsUpTo(_)
SeqsUpTo(n) ==
  IF n = 0 THEN {<<>>}
  ELSE LET shorter == SeqsUpTo(n - 1)
       IN  shorter \cup {Append(s, t) : s \in shorter, t \in Catalog}

\* ids are unique per listing within a load
UniqueIds(s) == \A i, j \in DOMAIN s : s[i].id = s[j].id => i = j

\* the arrays the response may parse to
Responses == {s \in SeqsUpTo(MaxTours) : UniqueIds(s)}

\* option values of the two selectors, and texts the user may type
ActivityValues == {<<>>, wWildlife, wSwamp}

PriceValues == {"", "0-50", "50-100", "100-200", "200+"}

SearchValues == {<<>>, wKayak, <<" ","G","a","t","o","r">>}

----------------------------------------------------------------------------
\* Matchers

activityMap ==
  (wAirboat :> <<wAirboat>>) @@
  (wKayak :> <<wKayak, wPaddle, wCanoe>>) @@
  (wWildlife :> <<wWildlife, wGator, wAlligator, wAnimal, wBird>>) @@
  (wFishing :> <<wFishing, wFish>>) @@
  (wBoatTourKey :> <<wBoatTour, wBoatRide>>) @@
  (wEcoTourKey :> <<wEco, wNature, wMangrove>>) @@
  (wNight :> <<wNight, wSunset, wEvening>>) @@
  (wPrivate :> <<wPrivate, wCharter>>)

matchesActivity(tour, activity) ==
  LET tags == join([i \in 1..Len(tour.tags) |-> toLowerCase(tour.tags[i])], <<" ">>)
      name == toLowerCase(Text(tour.name))
      keywords == IF activity \in DOMAIN activityMap
                  THEN activityMap[activity] ELSE <<activity>>
  IN  \E k \in DOMAIN keywords :
        includes(tags, keywords[k]) \/ includes(name, keywords[k])

matchesPrice(tour, range) ==
  IF ~Truthy(tour.price) THEN range = ""
  ELSE LET price == tour.price[1]
       IN  CASE range = "0-50" -> price <= 50
             [] range = "50-100" -> price > 50 /\ price <= 100
             [] range = "100-200" -> price > 100 /\ price <= 200
             [] range = "200+" -> price > 200
             [] OTHER -> TRUE

matchesSearch(tour, search) ==
  LET searchable ==
        toLowerCase(join(<<Text(tour.name), Text(tour.company),
                           Text(tour.description)>> \o tour.tags, <<" ">>))
  IN  includes(searchable, search)

----------------------------------------------------------------------------
\* Filter pipeline

\* the callback of allTours.filter: a non-empty filter value whose matcher
\* rejects the listing returns false; otherwise true
PassesAny(tour, activity, priceRange, search) ==
  \/ activity # <<>> /\ matchesActivity(tour, activity)
  \/ priceRange # "" /\ matchesPrice(tour, priceRange)
  \/ search # <<>> /\ matchesSearch(tour, search)

Passes(tour, activity, priceRange, search) ==
  IF activity # <<>> /\ ~matchesActivity(tour, activity) THEN FALSE
  ELSE IF priceRange # "" /\ ~matchesPrice(tour, priceRange) THEN FALSE
  ELSE IF search # <<>> /\ ~matchesSearch(tour, search) THEN FALSE
  ELSE TRUE

\* the three values applyFilters reads from the controls
ReadControls(act, pr, se) ==
  [activity |-> toLowerCase(act), priceRange |-> pr, search |-> trim(toLowerCase(se))]

\* every triple applyFilters can read
ControlReads ==
  {ReadControls(a, p, s) : a \in ActivityValues, p \in PriceValues, s \in SearchValues}

\* Passes is a pure function of the listing and the triple: its values, computed once
PassesOf ==
  [t \in Catalog, c \in ControlReads |-> Passes(t, c.activity, c.priceRange, c.search)]

\* Array.prototype.filter with the callback of applyFilters
RECURSIVE ArrayFilter(_, _)
ArrayFilter(arr, c) ==
  IF arr = <<>> THEN <<>>
  ELSE LET rest == ArrayFilter(Tail(arr), c)
       IN  IF PassesOf[Head(arr), c] THEN <<Head(arr)>> \o rest ELSE rest

----------------------------------------------------------------------------
\* Sorter and renderer

Score(tour) == IF Truthy(tour.qualityScore) THEN tour.qualityScore[1] ELSE 0

compareAscending(a, b) == Score(a) - Score(b)

\* the comparator of renderTours: negative when a goes before b
compare(a, b) == Score(b) - Score(a)

\* Array.prototype.sort is stable: x goes before the first y that compares
\* strictly after it, hence behind every equal element already placed
RECURSIVE InsertSorted(_, _)
InsertSorted(x, s) ==
  IF s = <<>> THEN <<x>>
  ELSE IF compare(x, Head(s)) < 0 THEN <<x>> \o s
  ELSE <<Head(s)>> \o InsertSorted(x, Tail(s))

RECURSIVE SortByQuality(_)
SortByQuality(s) ==
  IF s = <<>> THEN <<>>
  ELSE InsertSorted(s[Len(s)], SortByQuality(SubSeq(s, 1, Len(s) - 1)))

createTourCard(tour) ==
  [id |-> tour.id,
   price |-> IF Truthy(tour.price)
             THEN [label |-> "$", amount |-> tour.price[1]]
             ELSE [label |-> "Check Price", amount |-> 0],
   tag |-> IF tour.tags # <<>> /\ tour.tags[1] # <<>> THEN tour.tags[1] ELSE wTour]

ErrorView == [kind |-> "error", cards |-> <<>>]

NoResultsView == [kind |-> "noresults", cards |-> <<>>]

CardsView(tours) ==
  LET sorted == SortByQuality(tours)
  IN  [kind |-> "cards", cards |-> [i \in 1..Len(sorted) |-> createTourCard(sorted[i])]]

renderToursNoEmptyCheck(tours) ==
  [count |-> Len(tours), view |-> CardsView(tours)]

\* renderTours, as the pair it writes: tourCount.textContent and toursContainer.innerHTML
renderTours(tours) ==
  [count |-> Len(tours),
   view |-> IF Len(tours) = 0 THEN NoResultsView ELSE CardsView(tours)]

----------------------------------------------------------------------------
\* Timers (setTimeout / clearTimeout of the host)

Min(a, b) == IF a < b THEN a ELSE b

Max(a, b) == IF a > b THEN a ELSE b

clearTimeoutNoop(pending, handle) == pending

\* clearTimeout(handle): the timeout with that handle, if still pending, is dropped
clearTimeout(pending, handle) == {t \in pending : t.id # handle}

NewTimerNoDelay(id, wait, val) == [id |-> id, rem |-> 0, val |-> val]

\* setTimeout(later, wait); val records the search text of the scheduling event
NewTimer(id, wait, val) == [id |-> id, rem |-> wait, val |-> val]

\* the handle setTimeout returns: handles are opaque, and the one returned is
\* the handle of no pending timeout (the least such, so that equal timer tables
\* are equal states)
FreshId(pending) ==
  CHOOSE i \in 1..(Cardinality(pending) + 1) :
    /\ i \notin {t.id : t \in pending}
    /\ \A j \in 1..(i - 1) : j \in {t.id : t \in pending}

----------------------------------------------------------------------------
\* State machine

Init ==
  /\ allTours = <<>>
  /\ filteredTours = <<>>
  /\ activityFilter = <<>>
  /\ priceFilter = ""
  /\ searchInput = <<>>
  /\ toursContainer = [kind |-> "initial", cards |-> <<>>]
  /\ tourCount = <<>>
  /\ phase = "parsed"
  /\ timers = {}
  /\ timeout = 0
  /\ elapsed = Wait
  /\ firedSinceInput = 0
  /\ burstLen = 0
  /\ applied = <<>>
  /\ fetches = 0
  /\ assigns = 0

\* the listeners of setupFilters are attached once DOMContentLoaded has run
Listening == phase # "parsed"

\* DOMContentLoaded: loadTours() runs up to its first await, then setupFilters()
DOMContentLoaded ==
  /\ phase = "parsed"
  /\ phase' = "fetching"
  /\ fetches' = fetches + 1
  /\ UNCHANGED <<allTours, filteredTours, activityFilter, priceFilter, searchInput,
                 toursContainer, tourCount, timers, timeout, elapsed,
                 firedSinceInput, burstLen, applied, assigns>>

InitialDisplayedSorted(all) == SortByQuality(all)

\* filteredTours = [...allTours]
InitialDisplayed(all) == all

\* loadTours after both awaits resolved
LoadSuccess(response) ==
  /\ phase = "fetching"
  /\ phase' = "loaded"
  /\ allTours' = response
  /\ assigns' = assigns + 1
  /\ filteredTours' = InitialDisplayed(response)
  /\ tourCount' = <<renderTours(filteredTours').count>>
  /\ toursContainer' = renderTours(filteredTours').view
  /\ applied' = <<>>
  /\ UNCHANGED <<activityFilter, priceFilter, searchInput, timers, timeout, elapsed,
                 firedSinceInput, burstLen, fetches>>

LoadFailSilently ==
  /\ phase = "fetching"
  /\ phase' = "failed"
  /\ UNCHANGED <<allTours, filteredTours, activityFilter, priceFilter, searchInput,
                 toursContainer, tourCount, timers, timeout, elapsed,
                 firedSinceInput, burstLen, applied, fetches, assigns>>

\* loadTours when fetch rejects or response.json() rejects: the catch block
LoadFail ==
  /\ phase = "fetching"
  /\ phase' = "failed"
  /\ toursContainer' = ErrorView
  /\ UNCHANGED <<allTours, filteredTours, activityFilter, priceFilter, searchInput,
                 tourCount, timers, timeout, elapsed,
                 firedSinceInput, burstLen, applied, fetches, assigns>>

\* applyFilters, reading the controls' values act, pr, se
applyFilters(act, pr, se) ==
  /\ applied' = <<ReadControls(act, pr, se)>>
  /\ filteredTours' = ArrayFilter(allTours, applied'[1])
  /\ tourCount' = <<renderTours(filteredTours').count>>
  /\ toursContainer' = renderTours(filteredTours').view
  /\ UNCHANGED <<allTours, assigns>>

\* the user picks another activity: change event -> applyFilters
ActivityChange(v) ==
  /\ v # activityFilter
  /\ activityFilter' = v
  /\ IF Listening
     THEN applyFilters(v, priceFilter, searchInput)
     ELSE UNCHANGED <<allTours, filteredTours, tourCount, toursContainer, applied, assigns>>
  /\ UNCHANGED <<priceFilter, searchInput, phase, timers, timeout, elapsed,
                 firedSinceInput, burstLen, fetches>>

PriceChangeNoApply(v) ==
  /\ v # priceFilter
  /\ priceFilter' = v
  /\ UNCHANGED <<allTours, filteredTours, tourCount, toursContainer, applied, assigns,
                 activityFilter, searchInput, phase, timers, timeout, elapsed,
                 firedSinceInput, burstLen, fetches>>

\* the user picks another price bucket: change event -> applyFilters
PriceChange(v) ==
  /\ v # priceFilter
  /\ priceFilter' = v
  /\ IF Listening
     THEN applyFilters(activityFilter, v, searchInput)
     ELSE UNCHANGED <<allTours, filteredTours, tourCount, toursContainer, applied, assigns>>
  /\ UNCHANGED <<activityFilter, searchInput, phase, timers, timeout, elapsed,
                 firedSinceInput, burstLen, fetches>>

\* the user edits the search box: input event -> executedFunction of debounce
SearchInput(v) ==
  /\ v # searchInput
  /\ searchInput' = v
  /\ IF Listening
     THEN LET cleared == clearTimeout(timers, timeout)
              id == FreshId(cleared)
          IN  /\ Cardinality(cleared) < MaxTimers
              /\ timers' = cleared \cup {NewTimer(id, Wait, v)}
              /\ timeout' = id
              /\ elapsed' = 0
              /\ firedSinceInput' = 0
              /\ burstLen' = IF burstLen > 0 /\ elapsed < Wait THEN 2 ELSE 1
     ELSE UNCHANGED <<timers, timeout, elapsed, firedSinceInput, burstLen>>
  /\ UNCHANGED <<allTours, filteredTours, activityFilter, priceFilter, toursContainer,
                 tourCount, phase, applied, fetches, assigns>>

\* a due timeout runs `later`: clearTimeout(timeout); func(...args)
TimerFire(t) ==
  /\ t \in timers
  /\ t.rem = 0
  /\ timers' = clearTimeout(timers \ {t}, timeout)
  /\ applyFilters(activityFilter, priceFilter, searchInput)
  /\ firedSinceInput' = Min(2, firedSinceInput + 1)
  /\ UNCHANGED <<activityFilter, priceFilter, searchInput, phase, timeout, elapsed,
                 burstLen, fetches>>

\* TickMs of time pass
Tick ==
  /\ timers' = {[t EXCEPT !.rem = Max(0, t.rem - TickMs)] : t \in timers}
  /\ elapsed' = Min(Wait, elapsed + TickMs)
  /\ UNCHANGED <<allTours, filteredTours, activityFilter, priceFilter, searchInput,
                 toursContainer, tourCount, phase, timeout, firedSinceInput, burstLen,
                 applied, fetches, assigns>>

SearchInputEvent == \E v \in SearchValues : SearchInput(v)

TimerFires == \E t \in timers : TimerFire(t)

Next ==
  \/ DOMContentLoaded
  \/ \E response \in Responses : LoadSuccess(response)
  \/ LoadFail
  \/ \E v \in ActivityValues : ActivityChange(v)
  \/ \E v \in PriceValues : PriceChange(v)
  \/ SearchInputEvent
  \/ TimerFires
  \/ Tick

Spec == Init /\ [][Next]_vars

\* the event loop runs a due timeout, and time passes
FairSpec == Spec /\ WF_vars(TimerFires) /\ WF_vars(Tick)

----------------------------------------------------------------------------
\* Vocabulary of the properties

\* sub is full with some elements left out, the others in their order
RECURSIVE IsSubsequence(_, _)
IsSubsequence(sub, full) ==
  IF sub = <<>> THEN TRUE
  ELSE IF full = <<>> THEN FALSE
  ELSE IF Head(sub) = Head(full) THEN IsSubsequence(Tail(sub), Tail(full))
  ELSE IsSubsequence(sub, Tail(full))

\* the triple applyFilters would read in the current state
CurrentRead == ReadControls(activityFilter, priceFilter, searchInput)

\* a listing passes every matcher whose filter value is non-empty
Accepts(t, c) ==
  /\ c.activity # <<>> => matchesActivity(t, c.activity)
  /\ c.priceRange # "" => matchesPrice(t, c.priceRange)
  /\ c.search # <<>> => matchesSearch(t, c.search)

AcceptsOf == [t \in Catalog, c \in ControlReads |-> Accepts(t, c)]

\* qualityScore with a missing value counted as 0
ScoreOrZero(t) == IF t.qualityScore = <<>> THEN 0 ELSE t.qualityScore[1]

\* the position in the displayed set of the listing a card was made from
PosOfCard(card) == CHOOSE j \in DOMAIN filteredTours : filteredTours[j].id = card.id

NamedBuckets == {"0-50", "50-100", "100-200", "200+"}

InBucket(price, range) ==
  CASE range = "0-50" -> price <= 50
    [] range = "50-100" -> 50 < price /\ price <= 100
    [] range = "100-200" -> 100 < price /\ price <= 200
    [] range = "200+" -> price > 200

----------------------------------------------------------------------------
\* C1: within a burst of search-input events (each less than Wait after the
\* previous one) no recompute runs and only the newest timeout stays scheduled;
\* a debounced recompute runs only once Wait has passed since the last event, it
\* is the first one since that event, it leaves nothing scheduled, it was
\* scheduled by the last event and it filters with the text the search box then
\* holds; and once the events stop, the scheduled recompute does run.
C1_DebounceBurst ==
  /\ [][(SearchInputEvent /\ Listening /\ burstLen > 0 /\ elapsed < Wait)
          => /\ firedSinceInput = 0
             /\ \E t \in timers' : timers' = {t} /\ t.rem = Wait /\ t.val = searchInput'
       ]_vars
  /\ [][TimerFires
          => /\ elapsed >= Wait
             /\ firedSinceInput = 0
             /\ firedSinceInput' = 1
             /\ timers' = {}
             /\ \E t \in timers : t.rem = 0 /\ t.id = timeout /\ t.val = searchInput
             /\ applied' = <<CurrentRead>>
             /\ filteredTours' = ArrayFilter(allTours, CurrentRead)
       ]_vars
  /\ ([]<><<SearchInputEvent>>_vars) \/ <>[](timers = {})

\* a burst of two events has ended in its single recompute
C1_Witness ==
  /\ burstLen = 2
  /\ firedSinceInput = 1
  /\ timers = {}
  /\ searchInput # <<>>
  /\ applied = <<CurrentRead>>

\* C2: at most one debounced recompute is scheduled; it is the one the closure's
\* handle names, scheduled by the latest search-input event Wait after that event
C2_OnePending ==
  /\ Cardinality(timers) <= 1
  /\ \A t \in timers :
       /\ t.id = timeout
       /\ t.val = searchInput
       /\ t.rem = Wait - elapsed

\* a second event of a burst has replaced the pending timeout, after the load completed
C2_Witness ==
  /\ phase = "loaded"
  /\ burstLen = 2
  /\ firedSinceInput = 0
  /\ timers # {}

\* C3: the displayed set is an order-preserving subsequence of the working set;
\* the working set is assigned at most once, and only by the loader's completion
C3_WorkingSet ==
  /\ [](IsSubsequence(filteredTours, allTours) /\ assigns <= 1)
  /\ [][allTours' # allTours => phase = "fetching" /\ phase' = "loaded"]_vars

\* a recompute after the load left a proper, non-empty part of two listings displayed
C3_Witness ==
  /\ assigns = 1
  /\ applied # <<>>
  /\ Len(allTours) = 2
  /\ Len(filteredTours) = 1
  /\ filteredTours[1] = allTours[2]

\* C4: a failed load puts the error view in the listing area; one fetch is
\* started per page, by DOMContentLoaded alone
C4_LoadFailure ==
  /\ [](fetches <= 1)
  /\ [][phase = "fetching" /\ phase' = "failed" => toursContainer' = ErrorView]_vars
  /\ [][fetches' # fetches => phase = "parsed"]_vars

\* the load has failed while a debounced recompute was scheduled: the error
\* view is in the listing area and no second fetch was started
C4_Witness ==
  /\ phase = "failed"
  /\ fetches = 1
  /\ toursContainer = ErrorView
  /\ timers # {}
  /\ searchInput # <<>>

\* C5: after applyFilters the displayed set holds exactly the listings of the
\* working set that pass every matcher whose filter value is non-empty, once
\* each, in the working set's order
C5_Pipeline ==
  applied # <<>> =>
    LET c == applied[1]
    IN  /\ c.activity = toLowerCase(activityFilter)
        /\ c.priceRange = priceFilter
        /\ \A i \in DOMAIN allTours :
             (\E j \in DOMAIN filteredTours : filteredTours[j] = allTours[i])
               <=> AcceptsOf[allTours[i], c]
        /\ \A i, j \in DOMAIN filteredTours : filteredTours[i] = filteredTours[j] => i = j
        /\ IsSubsequence(filteredTours, allTours)

\* two filters are set, one listing passes both and one does not
C5_Witness ==
  /\ applied # <<>>
  /\ applied[1].priceRange # ""
  /\ applied[1].search # <<>>
  /\ Len(allTours) = 2
  /\ Len(filteredTours) = 1

\* C6: a listing with a price, zero included, matches exactly the named bucket
\* its price lies in; a listing without a price matches no named bucket
C6_PriceBuckets ==
  \A i \in DOMAIN allTours : \A range \in NamedBuckets :
    LET t == allTours[i]
    IN  IF t.price = <<>>
        THEN ~matchesPrice(t, range)
        ELSE matchesPrice(t, range) <=> InBucket(t.price[1], range)

\* C7: the cards are the displayed listings in descending order of qualityScore
\* (missing: 0), equal scores in the displayed set's order; the displayed set
\* itself stays as the loader or the filter left it
C7_SortedCards ==
  toursContainer.kind = "cards" =>
    LET cards == toursContainer.cards
    IN  /\ Len(cards) = Len(filteredTours)
        /\ \A i \in DOMAIN cards : \E j \in DOMAIN filteredTours :
             cards[i] = createTourCard(filteredTours[j])
        /\ \A i, k \in DOMAIN cards : i < k =>
             LET a == filteredTours[PosOfCard(cards[i])]
                 b == filteredTours[PosOfCard(cards[k])]
             IN  /\ ScoreOrZero(a) >= ScoreOrZero(b)
                 /\ ScoreOrZero(a) = ScoreOrZero(b)
                      => PosOfCard(cards[i]) < PosOfCard(cards[k])
        /\ filteredTours = IF applied = <<>> THEN allTours
                           ELSE ArrayFilter(allTours, applied[1])

\* two cards are shown in the opposite order of the displayed set
C7_Witness ==
  /\ toursContainer.kind = "cards"
  /\ Len(filteredTours) = 2
  /\ toursContainer.cards[1].id = filteredTours[2].id

\* two cards of equal score, one of them a missing score, keep their order
C7_WitnessTie ==
  /\ toursContainer.kind = "cards"
  /\ Len(filteredTours) = 2
  /\ filteredTours[1].qualityScore = <<>>
  /\ ScoreOrZero(filteredTours[2]) = 0
  /\ toursContainer.cards[1].id = filteredTours[1].id

\* C8: after a render the count shown is the size of the displayed set and the
\* number of cards; an empty displayed set shows the "No tours found" block
\* alone, with count 0
C8_CountAndCards ==
  toursContainer.kind \in {"cards", "noresults"} =>
    /\ tourCount = <<Len(filteredTours)>>
    /\ Len(toursContainer.cards) = Len(filteredTours)
    /\ toursContainer.kind = "noresults" <=> filteredTours = <<>>

\* cards were rendered at the load, and a recompute has emptied the view
C8_Witness ==
  /\ phase = "loaded"
  /\ Len(allTours) = 2
  /\ toursContainer = NoResultsView
  /\ tourCount = <<0>>

\* C9 as stated: once loaded and with nothing scheduled, the displayed set is
\* the pipeline's result for the controls' current values
C9_DisplayedIsCurrent ==
  (phase = "loaded" /\ timers = {}) =>
    filteredTours = ArrayFilter(allTours, CurrentRead)

\* C9 amended: once loaded and with nothing scheduled, the displayed set is the
\* pipeline's result for the controls' current values if a recompute has run
\* since the load completed, and the whole working set if none has
C9_DisplayedAfterRecompute ==
  (phase = "loaded" /\ timers = {}) =>
    IF applied # <<>>
    THEN applied = <<CurrentRead>> /\ filteredTours = ArrayFilter(allTours, CurrentRead)
    ELSE filteredTours = allTours

\* the load completed under a filter chosen before it, and a later recompute
\* brought the displayed set in line with the controls
C9_Witness ==
  /\ phase = "loaded"
  /\ timers = {}
  /\ applied # <<>>
  /\ activityFilter # <<>>
  /\ filteredTours # allTours

\* the load completed under a filter chosen before it: everything is displayed
C9_WitnessStale ==
  /\ phase = "loaded"
  /\ timers = {}
  /\ applied = <<>>
  /\ activityFilter # <<>>
  /\ filteredTours # ArrayFilter(allTours, CurrentRead)

\* C10: after a failed load the listing area shows the error view for good
C10_ErrorViewStays ==
  phase = "failed" => toursContainer = ErrorView

====
